---- MODULE Spec2Model ----
(***************************************************************************)
(* A model of suds/cache.py: the pass-through NoCache and the file-based   *)
(* caches FileCache, DocumentCache and ObjectCache over one cache folder.  *)
(*                                                                         *)
(* Strings that the code composes or inspects (file names, the prefix,     *)
(* the suffixes, ids) are sequences of characters, so that "%s-%s.%s" and  *)
(* startswith() are computed as the code computes them.  Values handed to  *)
(* put() and the bytes held by files are named by strings; the codecs map  *)
(* between the two.  Time is counted in whole seconds.                     *)
(***************************************************************************)
EXTENDS Integers, Sequences, FiniteSets, TLC

VARIABLES
    fs,       \* the cache folder: [root, dirs, files]
    now,      \* datetime.datetime.now(), in seconds
    cache,    \* the cache instance the client holds: [kind, duration]
    handles,  \* file objects opened by a completed call and not closed
    last,     \* the last completed call: what it was given and what it did
    run       \* a get and a put that run step by step, interleaved

vars == <<fs, now, cache, handles, last, run>>

----------------------------------------------------------------------------
(* Bounds of the model. *)

MaxTime == 2
MaxHandles == 1

----------------------------------------------------------------------------
(* Strings. *)

StartsWith(s, p) == Len(s) >= Len(p) /\ SubSeq(s, 1, Len(p)) = p

fnprefix == <<"s", "u", "d", "s">>

units == {"months", "weeks", "days", "hours", "minutes", "seconds"}

Kinds == {"FileCache", "DocumentCache", "ObjectCache"}

fnsuffix(kind) ==
    CASE kind = "DocumentCache" -> <<"x", "m", "l">>
      [] kind = "ObjectCache" -> <<"p", "x">>
      [] OTHER -> <<"g", "c", "f">>

(* FileCache.__filename: "%s-%s.%s" % (fnprefix, id, suffix), in location. *)
filename(kind, id) == fnprefix \o <<"-">> \o id \o <<".">> \o fnsuffix(kind)

VersionPath == <<"v", "e", "r", "s", "i", "o", "n">>

----------------------------------------------------------------------------
(* Values and bytes. *)

None == "None"

(* suds.sax.element.Element instances. *)
Elements == {"e1", "e2"}

(* Byte strings a client hands to FileCache.put. *)
RawBytes == {"b1"}

(* Objects pickle refuses (functions, open files, ...). *)
Unpicklable == {"fn"}

PutValues == Elements \cup RawBytes \cup Unpicklable

(* What a truncated, never written file holds. *)
EmptyData == ""

(* Bytes written into the folder by someone else: no codec reads them. *)
Garbage == "junk"

(* suds.byte_str(str(element)): the document's text. *)
XmlStr(e) ==
    CASE e = "e1" -> "<e1/>"
      [] e = "e2" -> "<e2/>"

ParseError == "SAXParseException"

(* suds.sax.parser.Parser().parse(fp). *)
XmlParse(data) ==
    CASE data = "<e1/>" -> "e1"
      [] data = "<e2/>" -> "e2"
      [] OTHER -> ParseError

PicklingError == "PicklingError"

(* pickle.dumps(object, protocol). *)
PickleDumps(v) ==
    CASE v = "e1" -> "P:e1"
      [] v = "e2" -> "P:e2"
      [] v = "b1" -> "P:b1"
      [] OTHER -> PicklingError

UnpicklingError == "UnpicklingError"

(* pickle.load(fp). *)
PickleLoad(data) ==
    CASE data = "P:e1" -> "e1"
      [] data = "P:e2" -> "e2"
      [] data = "P:b1" -> "b1"
      [] OTHER -> UnpicklingError

(* What open(filename, "wb").write(data) accepts. *)
IsBytes(data) ==
    data \in RawBytes \cup {XmlStr(e) : e \in Elements}
         \cup {PickleDumps(v) : v \in Elements \cup RawBytes}

----------------------------------------------------------------------------
(* The folder and the system calls the cache makes on it.  A call runs     *)
(* with one kind of system call failing, or none: fault names it.  An      *)
(* operation is modelled by its outcome: the folder after it, and whether  *)
(* it raised.                                                              *)

Faults ==
    {"none", "makedirs", "open_r", "open_w", "read", "write", "remove",
     "getctime", "listdir"}

EmptyFolder == [root |-> FALSE, dirs |-> {}, files |-> <<>>]

Exists(f, name) == f.root /\ name \in DOMAIN f.files

WithFile(f, name, data, t) ==
    [f EXCEPT !.files = (name :> [data |-> data, ctime |-> t]) @@ f.files]

Without(f, names) ==
    [f EXCEPT !.files = [n \in (DOMAIN f.files) \ names |-> f.files[n]]]

(* os.remove(filename). *)
os_remove(f, name, fault) ==
    IF Exists(f, name) /\ fault # "remove"
    THEN [fs |-> Without(f, {name}), raised |-> FALSE]
    ELSE [fs |-> f, raised |-> TRUE]

(* FileCache.__mktmp: a failure of makedirs is logged. *)
mktmp(f, fault) ==
    IF ~f.root /\ fault # "makedirs" THEN [f EXCEPT !.root = TRUE] ELSE f

(* FileCache.__open(filename, "rb"), also with the default mode. *)
open_r(f, name, fault) ==
    [fs |-> mktmp(f, fault),
     raised |-> ~(Exists(mktmp(f, fault), name) /\ fault # "open_r")]

(* FileCache.__open(filename, "wb"), also "w": creates or truncates. *)
open_w(f, name, fault, t) ==
    IF mktmp(f, fault).root /\ fault # "open_w"
    THEN [fs |-> WithFile(mktmp(f, fault), name, EmptyData, t),
          raised |-> FALSE]
    ELSE [fs |-> mktmp(f, fault), raised |-> TRUE]

(* purge without its try block. *)
purge_unguarded(f, name, fault) == os_remove(f, name, fault)

(* FileCache.purge: every error of os.remove is swallowed. *)
purge(f, name, fault) ==
    [fs |-> os_remove(f, name, fault).fs, raised |-> FALSE]

(* The try block of FileCache.put. *)
put_try(f, name, data, fault, t) ==
    LET o == open_w(f, name, fault, t)
    IN  IF o.raised THEN o
        ELSE IF fault = "write" \/ ~IsBytes(data)
             THEN [fs |-> o.fs, raised |-> TRUE]
             ELSE [fs |-> WithFile(o.fs, name, data, t), raised |-> FALSE]

(* FileCache.put: data is returned after the try block and in the except   *)
(* clause alike.                                                           *)
FileCache_put(f, name, data, fault, t) ==
    [fs |-> put_try(f, name, data, fault, t).fs, ret |-> data,
     raised |-> FALSE]

(* datetime.timedelta called with the keyword unit set to value, in        *)
(* seconds; -1: TypeError, the keyword is not one timedelta takes.         *)
timedelta(unit, value) ==
    CASE unit = "seconds" -> value
      [] unit = "minutes" -> 60 * value
      [] unit = "hours" -> 3600 * value
      [] unit = "days" -> 86400 * value
      [] unit = "weeks" -> 604800 * value
      [] OTHER -> -1

(* The comparison made inclusive. *)
IsExpired_inclusive(created, delta, t) == created + delta <= t

(* The comparison of FileCache.__remove_if_expired. *)
IsExpired(created, delta, t) == created + delta < t

(* __remove_if_expired taking only a negative value as "never". *)
remove_if_expired_zero(f, duration, name, fault, t) ==
    IF duration[2] < 0 THEN [fs |-> f, raised |-> FALSE]
    ELSE IF ~Exists(f, name) \/ fault = "getctime"
         THEN [fs |-> f, raised |-> TRUE]
    ELSE IF timedelta(duration[1], duration[2]) < 0
         THEN [fs |-> f, raised |-> TRUE]
    ELSE IF IsExpired(f.files[name].ctime,
                      timedelta(duration[1], duration[2]), t)
         THEN os_remove(f, name, fault)
    ELSE [fs |-> f, raised |-> FALSE]

(* FileCache.__remove_if_expired. *)
remove_if_expired(f, duration, name, fault, t) ==
    IF duration[2] < 1 THEN [fs |-> f, raised |-> FALSE]
    ELSE IF ~Exists(f, name) \/ fault = "getctime"
         THEN [fs |-> f, raised |-> TRUE]
    ELSE IF timedelta(duration[1], duration[2]) < 0
         THEN [fs |-> f, raised |-> TRUE]
    ELSE IF IsExpired(f.files[name].ctime,
                      timedelta(duration[1], duration[2]), t)
         THEN os_remove(f, name, fault)
    ELSE [fs |-> f, raised |-> FALSE]

(* FileCache._getf: [fs, open, raised]; open: it returned a file object,   *)
(* and not None as it does on any exception.                               *)
getf(f, duration, name, fault, t) ==
    LET r == remove_if_expired(f, duration, name, fault, t)
        o == open_r(r.fs, name, fault)
    IN  IF r.raised THEN [fs |-> r.fs, open |-> FALSE, raised |-> FALSE]
        ELSE [fs |-> o.fs, open |-> ~o.raised, raised |-> FALSE]

(* The outer try block of FileCache.get: [fs, ret, raised].  f.read() on   *)
(* None raises; a file object is closed in the finally clause.             *)
get_try(f, duration, name, fault, t) ==
    LET g == getf(f, duration, name, fault, t)
    IN  IF g.raised \/ ~g.open \/ fault = "read"
        THEN [fs |-> g.fs, ret |-> None, raised |-> TRUE]
        ELSE [fs |-> g.fs, ret |-> g.fs.files[name].data, raised |-> FALSE]

(* get purging the entry it failed to read, as the codecs do. *)
FileCache_get_purging(f, duration, name, fault, t) ==
    LET r == get_try(f, duration, name, fault, t)
    IN  [fs |-> IF r.raised THEN purge(r.fs, name, "none").fs ELSE r.fs,
         ret |-> IF r.raised THEN None ELSE r.ret,
         raised |-> FALSE, left |-> FALSE]

(* FileCache.get: [fs, ret, raised, left]; left: a file object the call    *)
(* opened is not closed when it returns.                                   *)
FileCache_get(f, duration, name, fault, t) ==
    LET r == get_try(f, duration, name, fault, t)
    IN  [fs |-> r.fs, ret |-> IF r.raised THEN None ELSE r.ret,
         raised |-> FALSE, left |-> FALSE]

(* What the reader of a codec gives for the bytes of a file:               *)
(* p.parse(fp) in DocumentCache.get, pickle.load(fp) in ObjectCache.get.   *)
Load(kind, data) ==
    IF kind = "DocumentCache" THEN XmlParse(data) ELSE PickleLoad(data)

LoadError(kind) ==
    IF kind = "DocumentCache" THEN ParseError ELSE UnpicklingError

(* DocumentCache.get and ObjectCache.get.  The except clause closes the    *)
(* file object and purges the entry; the try block closes nothing.         *)
Codec_get(kind, f, duration, name, fault, t) ==
    LET g == getf(f, duration, name, fault, t)
        v == IF fault = "read" THEN LoadError(kind)
             ELSE Load(kind, g.fs.files[name].data)
        p == purge(g.fs, name, fault)
    IN  IF g.raised
        THEN [fs |-> p.fs, ret |-> None, raised |-> p.raised, left |-> FALSE]
        ELSE IF ~g.open
        THEN [fs |-> g.fs, ret |-> None, raised |-> FALSE, left |-> FALSE]
        ELSE IF v = LoadError(kind)
        THEN [fs |-> p.fs, ret |-> None, raised |-> p.raised, left |-> FALSE]
        ELSE [fs |-> g.fs, ret |-> v, raised |-> FALSE, left |-> TRUE]

DocumentCache_get(f, duration, name, fault, t) ==
    Codec_get("DocumentCache", f, duration, name, fault, t)

ObjectCache_get(f, duration, name, fault, t) ==
    Codec_get("ObjectCache", f, duration, name, fault, t)

(* put storing the text of whatever it is given. *)
DocumentCache_put_any(f, name, object, fault, t) ==
    [fs |-> FileCache_put(f, name,
                          IF object \in Elements THEN XmlStr(object)
                          ELSE object,
                          fault, t).fs,
     ret |-> object, raised |-> FALSE]

(* DocumentCache.put: [fs, ret, raised]. *)
DocumentCache_put(f, name, object, fault, t) ==
    [fs |-> IF object \in Elements
            THEN FileCache_put(f, name, XmlStr(object), fault, t).fs
            ELSE f,
     ret |-> object, raised |-> FALSE]

(* ObjectCache.put: pickle.dumps is called outside any try block. *)
ObjectCache_put(f, name, object, fault, t) ==
    IF PickleDumps(object) = PicklingError
    THEN [fs |-> f, ret |-> None, raised |-> TRUE]
    ELSE [fs |-> FileCache_put(f, name, PickleDumps(object), fault, t).fs,
          ret |-> object, raised |-> FALSE]

(* NoCache.get: "return". *)
NoCache_get(f) == [fs |-> f, ret |-> None, raised |-> FALSE, left |-> FALSE]

(* NoCache.put: "pass". *)
NoCache_put(f, object) == [fs |-> f, ret |-> None, raised |-> FALSE]

(* Cache.purge and Cache.clear, which NoCache inherits: they raise         *)
(* Exception("not-implemented").                                           *)
Cache_purge(f) == [fs |-> f, raised |-> TRUE]

Cache_clear(f) == {[fs |-> f, raised |-> TRUE]}

(* put of each class. *)
Put(kind, f, name, object, fault, t) ==
    CASE kind = "DocumentCache" -> DocumentCache_put(f, name, object, fault, t)
      [] kind = "NoCache" -> NoCache_put(f, object)
      [] kind = "ObjectCache" -> ObjectCache_put(f, name, object, fault, t)
      [] OTHER -> FileCache_put(f, name, object, fault, t)

(* get of each class. *)
Get(kind, f, duration, name, fault, t) ==
    CASE kind = "DocumentCache" -> DocumentCache_get(f, duration, name, fault, t)
      [] kind = "NoCache" -> NoCache_get(f)
      [] kind = "ObjectCache" -> ObjectCache_get(f, duration, name, fault, t)
      [] OTHER -> FileCache_get(f, duration, name, fault, t)

(* The files FileCache.clear removes: the names os.listdir gives that are  *)
(* no directory and start with fnprefix.                                   *)
listdir(f) == (DOMAIN f.files) \cup f.dirs

(* clear without its test of the prefix. *)
ClearTargets_all(f) == {n \in listdir(f) : n \notin f.dirs}

ClearTargets(f) ==
    {n \in listdir(f) : n \notin f.dirs /\ StartsWith(n, fnprefix)}

(* FileCache.clear: the outcomes [fs, raised].  os.listdir gives the names *)
(* in any order, so a failing os.remove ends the loop after any of the     *)
(* other files are removed.                                                *)
clear(f, fault) ==
    IF ~f.root \/ fault = "listdir" THEN {[fs |-> f, raised |-> TRUE]}
    ELSE IF fault = "remove" /\ ClearTargets(f) # {}
    THEN {[fs |-> Without(f, S), raised |-> TRUE] :
            S \in (SUBSET ClearTargets(f)) \ {ClearTargets(f)}}
    ELSE {[fs |-> Without(f, ClearTargets(f)), raised |-> FALSE]}

(* suds.__version__ of the running release, and that of an earlier one. *)
CurrentVersion == "0.4.1"
StaleVersion == "0.3.9"

(* The except clause of FileCache.__check_version after self.clear() gave  *)
(* c: write the marker.  No code reads the time the marker was written     *)
(* at: it is kept at 0.                                                    *)
write_version(c, fault) ==
    LET o == open_w(c.fs, VersionPath, fault, 0)
    IN  IF c.raised THEN c
        ELSE IF o.raised \/ fault = "write" THEN [fs |-> o.fs, raised |-> TRUE]
        ELSE [fs |-> WithFile(o.fs, VersionPath, CurrentVersion, 0),
              raised |-> FALSE]

(* The try block without its comparison of the two versions. *)
version_ok_unchecked(f, fault) ==
    /\ ~open_r(f, VersionPath, fault).raised
    /\ fault # "read"

(* The try block of FileCache.__check_version: it ends without raising. *)
version_ok(f, fault) ==
    /\ ~open_r(f, VersionPath, fault).raised
    /\ fault # "read"
    /\ f.files[VersionPath].data = CurrentVersion

(* __check_version taking the except branch whatever the marker holds. *)
check_version_always(f, fault) ==
    {write_version(c, fault) :
       c \in clear(open_r(f, VersionPath, fault).fs, fault)}

(* FileCache.__check_version: the outcomes [fs, raised]. *)
check_version(f, fault) ==
    IF version_ok(f, fault)
    THEN {[fs |-> f, raised |-> FALSE]}
    ELSE {write_version(c, fault) :
            c \in clear(open_r(f, VersionPath, fault).fs, fault)}

DefaultDuration == <<"None", 0>>

(* FileCache.__set_duration on the keyword arguments, a set of (unit,      *)
(* value): [duration, raised].                                             *)
set_duration(kwargs) ==
    IF Cardinality(kwargs) = 1
    THEN LET arg == CHOOSE a \in kwargs : TRUE
         IN  IF arg[1] \notin units
             THEN [duration |-> DefaultDuration, raised |-> TRUE]
             ELSE [duration |-> arg, raised |-> FALSE]
    ELSE [duration |-> DefaultDuration, raised |-> FALSE]

(* purge removing every entry of the folder. *)
Purge_every(kind, f, name, fault) ==
    IF kind = "NoCache" THEN Cache_purge(f)
    ELSE [fs |-> Without(f, ClearTargets(f)), raised |-> FALSE]

(* purge and clear of each class. *)
Purge(kind, f, name, fault) ==
    IF kind = "NoCache" THEN Cache_purge(f) ELSE purge(f, name, fault)

Clear(kind, f, fault) ==
    IF kind = "NoCache" THEN Cache_clear(f) ELSE clear(f, fault)

(* FileCache.__init__: the outcomes [fs, duration, raised]. *)
init(f, kwargs, fault) ==
    IF set_duration(kwargs).raised
    THEN {[fs |-> f, duration |-> DefaultDuration, raised |-> TRUE]}
    ELSE {[fs |-> o.fs, duration |-> set_duration(kwargs).duration,
           raised |-> o.raised] : o \in check_version(f, fault)}

----------------------------------------------------------------------------
(* The inputs. *)

Ids == {<<"a">>, <<"b">>}

(* Names in the folder that are no entry of a cache. *)
LogFile == fnprefix \o <<".", "l", "o", "g">>
ReadMe == <<"R", "E", "A", "D", "M", "E">>
PrefixedDir == fnprefix \o <<"-", "d">>
OtherDir == <<"t", "m", "p">>

EntryNames == {filename(k, i) : k \in Kinds, i \in Ids}

----------------------------------------------------------------------------
(* The state machine. *)

NoInstance == [kind |-> "none", duration |-> DefaultDuration]

(* The files a call removed, between the folders before and after it. *)
Removed(f, g) == {n \in DOMAIN f.files : ~Exists(g, n)}

(* The record of a call: the operation, its arguments (id, val, and kw for *)
(* the constructor), what it returned or that it raised, the system call   *)
(* that failed during it, and the files it removed.                        *)
(* No call runs step by step. *)
NoRun ==
    [id |-> <<>>, val |-> None, wpc |-> "idle", wlinked |-> FALSE,
     wraised |-> FALSE, rpc |-> "idle", rret |-> None, rraised |-> FALSE]

Call(op, id, val, kw, ret, raised, fault, removed) ==
    [op |-> op, id |-> id, val |-> val, kw |-> kw, ret |-> ret,
     raised |-> raised, fault |-> fault, removed |-> removed]

Idle == Call("env", <<>>, None, {}, None, FALSE, "none", {})

Init ==
    /\ fs = EmptyFolder
    /\ now = 0
    /\ cache = NoInstance
    /\ handles = 0
    /\ last = Call("none", <<>>, None, {}, None, FALSE, "none", {})
    /\ run = NoRun

(* The client constructs a cache of class kind; it holds no new instance   *)
(* when the constructor raises.                                            *)
Construct(kind, kwargs, fault) ==
    /\ \E o \in init(fs, kwargs, fault) :
          /\ fs' = o.fs
          /\ cache' = IF o.raised THEN cache
                      ELSE [kind |-> kind, duration |-> o.duration]
          /\ last' = Call("init", <<>>, None, kwargs, None, o.raised, fault,
                          Removed(fs, o.fs))
    /\ UNCHANGED <<now, handles, run>>

(* The client constructs a NoCache: the class defines no constructor. *)
ConstructNoCache ==
    /\ cache' = [kind |-> "NoCache", duration |-> DefaultDuration]
    /\ last' = Call("init", <<>>, None, {}, None, FALSE, "none", {})
    /\ UNCHANGED <<fs, now, handles, run>>

DoPut(id, object, fault) ==
    /\ cache.kind # "none"
    /\ LET r == Put(cache.kind, fs, filename(cache.kind, id), object, fault, now)
       IN  /\ fs' = r.fs
           /\ last' = Call("put", id, object, {}, r.ret, r.raised, fault,
                           Removed(fs, r.fs))
    /\ UNCHANGED <<now, cache, handles, run>>

(* A file object the call did not close is closed when the interpreter     *)
(* collects it: at once (collected), or later.                             *)
DoGet(id, fault, collected) ==
    /\ cache.kind # "none"
    /\ LET r == Get(cache.kind, fs, cache.duration,
                    filename(cache.kind, id), fault, now)
       IN  /\ fs' = r.fs
           /\ last' = Call("get", id, None, {}, r.ret, r.raised, fault,
                           Removed(fs, r.fs))
           /\ IF r.left /\ ~collected
              THEN handles < MaxHandles /\ handles' = handles + 1
              ELSE handles' = handles
    /\ UNCHANGED <<now, cache, run>>

DoPurge(id, fault) ==
    /\ cache.kind # "none"
    /\ LET r == Purge(cache.kind, fs, filename(cache.kind, id), fault)
       IN  /\ fs' = r.fs
           /\ last' = Call("purge", id, None, {}, None, r.raised, fault,
                           Removed(fs, r.fs))
    /\ UNCHANGED <<now, cache, handles, run>>

DoClear(fault) ==
    /\ cache.kind # "none"
    /\ \E o \in Clear(cache.kind, fs, fault) :
          /\ fs' = o.fs
          /\ last' = Call("clear", <<>>, None, {}, None, o.raised, fault,
                          Removed(fs, o.fs))
    /\ UNCHANGED <<now, cache, handles, run>>

(* The interpreter collects the file objects left open. *)
Collect ==
    /\ handles > 0
    /\ handles' = 0
    /\ last' = Idle
    /\ UNCHANGED <<fs, now, cache, run>>

Tick ==
    /\ now < MaxTime
    /\ now' = now + 1
    /\ last' = Idle
    /\ UNCHANGED <<fs, cache, handles, run>>

(* The seconds in one unit of FileCache.units; a month at its longest. *)
UnitSeconds(unit) ==
    CASE unit = "seconds" -> 1
      [] unit = "minutes" -> 60
      [] unit = "hours" -> 3600
      [] unit = "days" -> 86400
      [] unit = "weeks" -> 604800
      [] unit = "months" -> 2678400

(* The client waits for one unit of time, once. *)
Sleep(unit) ==
    /\ now <= MaxTime
    /\ now' = now + UnitSeconds(unit)
    /\ last' = Idle
    /\ UNCHANGED <<fs, cache, handles, run>>

(* Another process writes a file into the folder. *)
EnvWrite(name, data) ==
    /\ fs' = WithFile([fs EXCEPT !.root = TRUE], name, data, now)
    /\ last' = Idle
    /\ UNCHANGED <<now, cache, handles, run>>

EnvMkdir(dir) ==
    /\ dir \notin fs.dirs
    /\ fs' = [fs EXCEPT !.root = TRUE, !.dirs = @ \cup {dir}]
    /\ last' = Idle
    /\ UNCHANGED <<now, cache, handles, run>>

EnvRmtree ==
    /\ fs.root
    /\ fs' = EmptyFolder
    /\ last' = Idle
    /\ UNCHANGED <<now, cache, handles, run>>

----------------------------------------------------------------------------
(* A put and a get of a codec, in two processes over the same folder, run  *)
(* step by step.  The steps are the system calls: the put opens the file   *)
(* (which creates or truncates it), writes and closes; the get opens the   *)
(* file, reads it, and purges the entry when reading failed.               *)

Codecs == {"DocumentCache", "ObjectCache"}

(* The bytes put hands to FileCache.put for a value the codec accepts. *)
Serialize(kind, v) ==
    IF kind = "DocumentCache" THEN XmlStr(v) ELSE PickleDumps(v)

(* The first part of data. *)
Truncated(data) ==
    CASE data = "<e1/>" -> "<e1"
      [] data = "<e2/>" -> "<e2"
      [] data \in {"P:e1", "P:e2", "P:b1"} -> "P:"
      [] OTHER -> EmptyData

(* What the file can hold after f.write(data) and before f.close(): the    *)
(* file object is buffered, and none, part or all of data has been         *)
(* flushed.                                                                *)
Flushed(data) == {EmptyData, Truncated(data), data}

(* close leaving the buffer unwritten. *)
close_w_unflushed(f, name, data, linked, t) == f

(* f.close() of the file opened for writing: the buffer is flushed into    *)
(* the file, which is no more in the folder when it was removed since.     *)
close_w(f, name, data, linked, t) ==
    IF linked THEN WithFile(f, name, data, t) ELSE f

(* The put holds the entry file open. *)
WriterHolds == run.wpc \in {"write", "close"} /\ run.wlinked

(* put(id, object) of a codec up to the call of FileCache.put. *)
WCall(id, object) ==
    /\ cache.kind \in Codecs
    /\ run.wpc = "idle"
    /\ run.rpc = "idle" \/ run.id = id
    /\ run' = [run EXCEPT
                 !.id = id, !.val = object,
                 !.wpc = IF \/ /\ cache.kind = "DocumentCache"
                               /\ object \in Elements
                            \/ /\ cache.kind = "ObjectCache"
                               /\ PickleDumps(object) # PicklingError
                         THEN "open" ELSE "done",
                 !.wraised = /\ cache.kind = "ObjectCache"
                             /\ PickleDumps(object) = PicklingError]
    /\ last' = Idle
    /\ UNCHANGED <<fs, now, cache, handles>>

(* self.__open(filename, "wb"). *)
WOpen ==
    /\ run.wpc = "open"
    /\ LET o == open_w(fs, filename(cache.kind, run.id), "none", now)
       IN  /\ fs' = o.fs
           /\ run' = [run EXCEPT !.wpc = IF o.raised THEN "done" ELSE "write",
                                 !.wlinked = ~o.raised]
    /\ last' = Idle
    /\ UNCHANGED <<now, cache, handles>>

(* f.write(data). *)
WWrite ==
    /\ run.wpc = "write"
    /\ \E d \in Flushed(Serialize(cache.kind, run.val)) :
          fs' = IF run.wlinked
                THEN WithFile(fs, filename(cache.kind, run.id), d, now)
                ELSE fs
    /\ run' = [run EXCEPT !.wpc = "close"]
    /\ last' = Idle
    /\ UNCHANGED <<now, cache, handles>>

(* f.close(), and put returns. *)
WClose ==
    /\ run.wpc = "close"
    /\ fs' = close_w(fs, filename(cache.kind, run.id),
                     Serialize(cache.kind, run.val), run.wlinked, now)
    /\ run' = [run EXCEPT !.wpc = "done", !.wlinked = FALSE]
    /\ last' = Idle
    /\ UNCHANGED <<now, cache, handles>>

(* get(id) of a codec up to the return of self._getf(id). *)
RGetf(id) ==
    /\ cache.kind \in Codecs
    /\ run.rpc = "idle"
    /\ run.wpc = "idle" \/ run.id = id
    /\ LET g == getf(fs, cache.duration, filename(cache.kind, id), "none",
                     now)
       IN  /\ fs' = g.fs
           /\ run' = [run EXCEPT
                        !.id = id,
                        !.rpc = IF g.open THEN "load" ELSE "done",
                        !.wlinked = @ /\ Exists(g.fs,
                                                filename(cache.kind, id))]
    /\ last' = Idle
    /\ UNCHANGED <<now, cache, handles>>

(* p.parse(fp) or pickle.load(fp): reading takes several system calls, so  *)
(* while the put holds the file open the reader may also get bytes that    *)
(* never were in the file together.                                        *)
RLoad ==
    /\ run.rpc = "load"
    /\ Exists(fs, filename(cache.kind, run.id))
    /\ \E v \in {Load(cache.kind,
                      fs.files[filename(cache.kind, run.id)].data)}
                \cup (IF WriterHolds THEN {LoadError(cache.kind)} ELSE {}) :
          run' = [run EXCEPT
                    !.rpc = IF v = LoadError(cache.kind) THEN "purge"
                            ELSE "done",
                    !.rret = IF v = LoadError(cache.kind) THEN None ELSE v]
    /\ last' = Idle
    /\ UNCHANGED <<fs, now, cache, handles>>

(* The except clause: fp.close() and self.purge(id).  os.remove of a file  *)
(* another process holds open removes it (POSIX) or fails (Windows).       *)
RPurge ==
    /\ run.rpc = "purge"
    /\ \E fault \in {"none"} \cup (IF WriterHolds THEN {"remove"} ELSE {}) :
          LET p == purge(fs, filename(cache.kind, run.id), fault)
          IN  /\ fs' = p.fs
              /\ run' = [run EXCEPT
                           !.rpc = "done", !.rraised = p.raised,
                           !.wlinked = @ /\ Exists(p.fs,
                                                   filename(cache.kind,
                                                            run.id))]
    /\ last' = Idle
    /\ UNCHANGED <<now, cache, handles>>

(* The calls that ran have returned to their clients. *)
Return ==
    /\ run # NoRun
    /\ run.wpc \in {"idle", "done"}
    /\ run.rpc \in {"idle", "done"}
    /\ run' = NoRun
    /\ last' = Idle
    /\ UNCHANGED <<fs, now, cache, handles>>

----------------------------------------------------------------------------
(* Spec: the codecs.  Caches of the three classes over one folder, with    *)
(* put and get failing at any system call, entries corrupted by another    *)
(* process, and file objects collected at once or later.                   *)
CodecIds == {<<"a">>}
CodecArgs == {{}, {<<"months", 1>>}}
PutFaults == {"none", "makedirs", "open_w", "write"}
GetFaults == {"none", "makedirs", "open_r", "read", "remove", "getctime"}

Next ==
    \/ \E k \in Kinds, kw \in CodecArgs : Construct(k, kw, "none")
    \/ \E i \in CodecIds, v \in PutValues, f \in PutFaults : DoPut(i, v, f)
    \/ \E i \in CodecIds, f \in GetFaults, g \in BOOLEAN : DoGet(i, f, g)
    \/ \E i \in CodecIds : DoPurge(i, "none")
    \/ Collect
    \/ \E k \in Kinds, i \in CodecIds : EnvWrite(filename(k, i), Garbage)
    \/ EnvRmtree

Spec == Init /\ [][Next]_vars

(* SpecExpiry: time.  Entries age while caches of the three classes, with *)
(* and without a duration, read them; get runs with any system call        *)
(* failing, and the interpreter collects file objects at once.             *)
ExpiryArgs ==
    {{}, {<<"seconds", 0>>}, {<<"seconds", 1>>}, {<<"months", 1>>}}
ExpiryValues == {"e1", "b1"}

NextExpiry ==
    \/ \E k \in Kinds, kw \in ExpiryArgs : Construct(k, kw, "none")
    \/ \E i \in CodecIds, v \in ExpiryValues : DoPut(i, v, "none")
    \/ \E i \in CodecIds, f \in GetFaults : DoGet(i, f, TRUE)
    \/ Tick
    \/ \E k \in Kinds \ {"FileCache"}, i \in CodecIds :
          EnvWrite(filename(k, i), Garbage)
    \/ EnvRmtree

SpecExpiry == Init /\ [][NextExpiry]_vars

(* SpecVersion: the folder as a whole.  Caches are constructed, with any  *)
(* system call failing, over a folder in which other processes leave a     *)
(* marker of an earlier release, files of their own and directories; the   *)
(* client clears it.                                                       *)
VersionArgs ==
    {{}, {<<"years", 1>>}, {<<"seconds", 1>>, <<"minutes", 1>>}}
InitFaults ==
    {"none", "makedirs", "open_r", "read", "open_w", "write", "remove",
     "listdir"}
ClearFaults == {"none", "remove", "listdir"}
VersionValues == {"e1", "b1"}
Strangers ==
    {<<VersionPath, StaleVersion>>, <<VersionPath, CurrentVersion>>,
     <<LogFile, Garbage>>, <<ReadMe, Garbage>>}

NextVersion ==
    \/ \E k \in Kinds, kw \in VersionArgs, f \in InitFaults :
          Construct(k, kw, f)
    \/ \E i \in CodecIds, v \in VersionValues : DoPut(i, v, "none")
    \/ \E i \in CodecIds : DoGet(i, "none", TRUE)
    \/ \E i \in CodecIds : DoPurge(i, "none")
    \/ \E f \in ClearFaults : DoClear(f)
    \/ \E w \in Strangers : EnvWrite(w[1], w[2])
    \/ \E d \in {PrefixedDir, OtherDir} : EnvMkdir(d)
    \/ EnvRmtree

SpecVersion == Init /\ [][NextVersion]_vars

(* SpecFamilies: the classes side by side.  Caches of the four classes,    *)
(* NoCache among them, are used in turn over one folder with two ids; put  *)
(* and purge run with a system call failing.                               *)
FamilyValues == {"e1", "b1"}
FamilyPutFaults == {"none", "write"}
FamilyPurgeFaults == {"none", "remove"}

NextFamilies ==
    \/ ConstructNoCache
    \/ \E k \in Kinds : Construct(k, {}, "none")
    \/ \E i \in Ids, v \in FamilyValues, f \in FamilyPutFaults : DoPut(i, v, f)
    \/ \E i \in Ids : DoGet(i, "none", TRUE)
    \/ \E i \in Ids, f \in FamilyPurgeFaults : DoPurge(i, f)
    \/ DoClear("none")

SpecFamilies == Init /\ [][NextFamilies]_vars

(* SpecUnits: the units of the duration.  FileCache instances of every     *)
(* unit, and of no duration, read two entries that age by seconds and by   *)
(* whole units; get runs with any system call failing.                     *)
UnitArgs == {{}, {<<"seconds", 2>>}} \cup {{<<u, 1>>} : u \in units}

NextUnits ==
    \/ \E kw \in UnitArgs : Construct("FileCache", kw, "none")
    \/ \E i \in Ids : DoPut(i, "b1", "none")
    \/ \E i \in Ids, f \in GetFaults : DoGet(i, f, TRUE)
    \/ Tick
    \/ \E u \in units : Sleep(u)

SpecUnits == Init /\ [][NextUnits]_vars

(* SpecRace: a put and a get interleaved.  Over entries that are absent,   *)
(* stored or corrupted, one put and one get of a codec run step by step in *)
(* any order.                                                              *)
NextRace ==
    \/ run = NoRun /\ \E k \in Codecs : Construct(k, {}, "none")
    \/ run = NoRun /\ \E i \in CodecIds, v \in Elements : DoPut(i, v, "none")
    \/ run = NoRun
       /\ \E k \in Codecs, i \in CodecIds : EnvWrite(filename(k, i), Garbage)
    \/ \E i \in CodecIds, v \in PutValues : WCall(i, v)
    \/ WOpen
    \/ WWrite
    \/ WClose
    \/ \E i \in CodecIds : RGetf(i)
    \/ RLoad
    \/ RPurge
    \/ Return

SpecRace == Init /\ [][NextRace]_vars

----------------------------------------------------------------------------
(* What the claims speak of. *)

(* The values a codec accepts. *)
Accepts(kind, v) ==
    CASE kind = "DocumentCache" -> v \in Elements
      [] kind = "ObjectCache" -> v \notin Unpicklable
      [] OTHER -> v \in RawBytes

(* The entry file of the id of the call recorded in c, in the cache held. *)
EntryOf(c) == filename(cache.kind, c.id)

(* The bytes are none the codec of class kind reads back. *)
Corrupt(kind, data) ==
    CASE kind = "DocumentCache" -> XmlParse(data) = ParseError
      [] kind = "ObjectCache" -> PickleLoad(data) = UnpicklingError
      [] OTHER -> FALSE

(* What get of class kind gives for a file holding data. *)
Decoded(kind, data) ==
    CASE kind = "DocumentCache" ->
            IF XmlParse(data) = ParseError THEN None ELSE XmlParse(data)
      [] kind = "ObjectCache" ->
            IF PickleLoad(data) = UnpicklingError THEN None
            ELSE PickleLoad(data)
      [] OTHER -> data

(* C1: a get(id) that follows a put(id, v) of an accepted value at once,   *)
(* on the same instance and with no system call failing in either,         *)
(* returns v.                                                              *)
C1_RoundTrip ==
    [][(/\ last.op = "put" /\ last.fault = "none"
        /\ Accepts(cache.kind, last.val)
        /\ last'.op = "get" /\ last'.fault = "none"
        /\ last'.id = last.id)
       => last'.ret = last.val]_vars

(* C3: put never raises and returns the value it was given. *)
C3_PutReturnsValue ==
    last.op = "put" => (~last.raised /\ last.ret = last.val)

(* C8: a codec get of an entry whose file holds bytes the codec cannot     *)
(* read, with no system call failing, returns absent without raising and   *)
(* leaves no entry file.                                                   *)
C8_CorruptPurged ==
    [][(/\ last'.op = "get" /\ last'.fault = "none"
        /\ Exists(fs, EntryOf(last'))
        /\ Corrupt(cache.kind, fs.files[EntryOf(last')].data))
       => (/\ last'.ret = None /\ ~last'.raised
           /\ ~Exists(fs', EntryOf(last')))]_vars

(* C9: between calls no file object opened by a call is still open. *)
C9_NoOpenHandles == handles = 0

(* C2: get never raises, whatever system call fails, and returns absent or *)
(* what the entry file held.                                               *)
C2_GetNeverRaises ==
    [][last'.op = "get"
       => (/\ ~last'.raised
           /\ \/ last'.ret = None
              \/ /\ Exists(fs, EntryOf(last'))
                 /\ last'.ret = Decoded(cache.kind,
                                        fs.files[EntryOf(last')].data))]_vars

(* A get whose expiration delete failed has returned absent and left the   *)
(* expired file. *)
C2_Witness ==
    /\ last.op = "get" /\ last.fault = "remove" /\ ~last.raised
    /\ last.ret = None
    /\ cache.duration = <<"seconds", 1>>
    /\ Exists(fs, EntryOf(last))
    /\ IsExpired(fs.files[EntryOf(last)].ctime, 1, now)

(* C4 as stated: with duration (seconds, 1) an entry created at T is       *)
(* absent when read at T+1 or later, and present when read before.         *)
C4_AbsentAtBoundary ==
    [][(/\ last'.op = "get" /\ last'.fault = "none"
        /\ cache.duration = <<"seconds", 1>>
        /\ Exists(fs, EntryOf(last')))
       => last'.ret = IF now >= fs.files[EntryOf(last')].ctime + 1
                      THEN None
                      ELSE Decoded(cache.kind,
                                   fs.files[EntryOf(last')].data)]_vars

(* C4 amended: with duration (seconds, 1) an entry created at T is absent  *)
(* when read later than T+1, and present when read at T+1 or before.       *)
C4_AbsentAfterBoundary ==
    [][(/\ last'.op = "get" /\ last'.fault = "none"
        /\ cache.duration = <<"seconds", 1>>
        /\ Exists(fs, EntryOf(last')))
       => (/\ last'.ret = IF now > fs.files[EntryOf(last')].ctime + 1
                          THEN None
                          ELSE Decoded(cache.kind,
                                       fs.files[EntryOf(last')].data)
           /\ Exists(fs', EntryOf(last'))
                = (now <= fs.files[EntryOf(last')].ctime + 1
                   /\ ~Corrupt(cache.kind,
                               fs.files[EntryOf(last')].data)))]_vars

(* An entry read at exactly T+1 was returned. *)
C4_Witness ==
    /\ last.op = "get" /\ last.fault = "none"
    /\ cache.duration = <<"seconds", 1>>
    /\ Exists(fs, EntryOf(last))
    /\ now = fs.files[EntryOf(last)].ctime + 1
    /\ last.ret # None

(* C5: in a cache whose duration value is below 1, a get with no system    *)
(* call failing returns what the entry file holds, however old the file,   *)
(* and deletes no file a codec can read.                                   *)
C5_NeverExpires ==
    [][(/\ last'.op = "get" /\ last'.fault = "none"
        /\ cache.duration[2] < 1
        /\ Exists(fs, EntryOf(last')))
       => (/\ last'.ret = Decoded(cache.kind, fs.files[EntryOf(last')].data)
           /\ Corrupt(cache.kind, fs.files[EntryOf(last')].data)
              \/ fs' = fs)]_vars

(* An entry two seconds old was returned by a cache with duration value 0. *)
C5_Witness ==
    /\ last.op = "get" /\ last.fault = "none"
    /\ cache.duration = <<"seconds", 0>>
    /\ Exists(fs, EntryOf(last))
    /\ now >= fs.files[EntryOf(last)].ctime + 2
    /\ last.ret # None

(* C6: a constructor that returns, over a folder whose marker is absent,   *)
(* unreadable or not the current version, leaves no file with the prefix   *)
(* (so get is absent for every id of every class) and a marker that holds  *)
(* the current version.                                                    *)
C6_VersionInvalidation ==
    [][(/\ last'.op = "init" /\ ~last'.raised
        /\ \/ ~Exists(fs, VersionPath)
           \/ last'.fault \in {"open_r", "read"}
           \/ fs.files[VersionPath].data # CurrentVersion)
       => (/\ \A n \in DOMAIN fs'.files : ~StartsWith(n, fnprefix)
           /\ \A k \in Kinds, i \in Ids :
                 Get(k, fs', DefaultDuration, filename(k, i), "none",
                     now).ret = None
           /\ Exists(fs', VersionPath)
           /\ fs'.files[VersionPath].data = CurrentVersion)]_vars

(* A constructor found the marker of an earlier release, removed entries   *)
(* and wrote the current version.                                          *)
C6_Witness ==
    /\ last.op = "init" /\ ~last.raised
    /\ Cardinality(last.removed \cap EntryNames) >= 2
    /\ fs.files[VersionPath].data = CurrentVersion

(* C7: a constructor given more than one duration keyword raises. *)
C7_MultipleUnitsRejected ==
    (last.op = "init" /\ Cardinality(last.kw) > 1) => last.raised

(* C10: a clear that returns has removed every file (no directory) whose   *)
(* name starts with the prefix; clear changes nothing else, whether it     *)
(* returns or raises.                                                      *)
C10_ClearFrame ==
    [][last'.op = "clear"
       => (/\ fs'.root = fs.root
           /\ fs'.dirs = fs.dirs
           /\ \A n \in DOMAIN fs.files :
                 \/ Exists(fs', n) /\ fs'.files[n] = fs.files[n]
                 \/ StartsWith(n, fnprefix) /\ ~Exists(fs', n)
           /\ DOMAIN fs'.files \subseteq DOMAIN fs.files
           /\ ~last'.raised
              => \A n \in DOMAIN fs'.files : ~StartsWith(n, fnprefix))]_vars

(* A clear removed entries and the log file beside a directory with the    *)
(* prefix, a file without it and the marker.                               *)
C10_Witness ==
    /\ last.op = "clear" /\ ~last.raised
    /\ LogFile \in last.removed
    /\ last.removed \cap EntryNames # {}
    /\ PrefixedDir \in fs.dirs
    /\ Exists(fs, ReadMe)
    /\ Exists(fs, VersionPath)

(* C11: a constructor given keyword arguments it accepts returns an        *)
(* instance, whatever system call fails during its version check.          *)
C11_ConstructorNeverRaises ==
    (last.op = "init" /\ ~set_duration(last.kw).raised) => ~last.raised

(* C12: on a NoCache every put(id, v) returns v, and every get(id)         *)
(* returns absent, whatever the folder holds.                              *)
C12_Passthrough ==
    cache.kind = "NoCache"
    => (/\ last.op = "put" => last.ret = last.val
        /\ last.op = "get" => last.ret = None
        /\ \A i \in Ids :
              Get(cache.kind, fs, cache.duration, filename(cache.kind, i),
                  "none", now).ret = None)

(* C13: on a NoCache put, purge and clear return without raising. *)
C13_NoCacheNeverFails ==
    (cache.kind = "NoCache" /\ last.op \in {"put", "purge", "clear"})
    => ~last.raised

(* The instant at which an entry created at created falls due in the       *)
(* cache held: created plus the duration the cache was constructed with.   *)
Due(created) == created + cache.duration[2] * UnitSeconds(cache.duration[1])

(* C14: a get with no system call failing, of an entry the codec can read, *)
(* deletes the entry file exactly when the value of the duration is at     *)
(* least 1 and the entry fell due strictly before now; read at the very    *)
(* instant it falls due, the entry is returned.                            *)
C14_StrictExpiry ==
    [][(/\ last'.op = "get" /\ last'.fault = "none"
        /\ Exists(fs, EntryOf(last'))
        /\ ~Corrupt(cache.kind, fs.files[EntryOf(last')].data))
       => (/\ ~Exists(fs', EntryOf(last'))
              <=> (/\ cache.duration[2] >= 1
                   /\ Due(fs.files[EntryOf(last')].ctime) < now)
           /\ (/\ cache.duration[2] >= 1
               /\ Due(fs.files[EntryOf(last')].ctime) = now)
              => last'.ret = Decoded(cache.kind,
                                     fs.files[EntryOf(last')].data))]_vars

(* C15: in a cache constructed with one of the six units and a value of at *)
(* least 1, a get with no system call failing, of an entry that has not    *)
(* yet fallen due, returns what the entry holds and keeps the file.        *)
C15_EveryUnit ==
    [][(/\ last'.op = "get" /\ last'.fault = "none"
        /\ cache.duration[1] \in units /\ cache.duration[2] >= 1
        /\ Exists(fs, EntryOf(last'))
        /\ ~Corrupt(cache.kind, fs.files[EntryOf(last')].data)
        /\ now < Due(fs.files[EntryOf(last')].ctime))
       => (/\ last'.ret = Decoded(cache.kind, fs.files[EntryOf(last')].data)
           /\ Exists(fs', EntryOf(last')))]_vars

(* C16: a constructor that can read a marker holding the current version   *)
(* leaves the folder as it is, so every get returns what it returned       *)
(* before; and no get, put or purge touches the marker or any file but     *)
(* the entry it is called for, whatever the marker holds.                  *)
C16_CurrentVersionKeeps ==
    [][/\ (/\ last'.op = "init"
           /\ last'.fault \notin {"open_r", "read"}
           /\ Exists(fs, VersionPath)
           /\ fs.files[VersionPath].data = CurrentVersion)
          => (/\ fs' = fs
              /\ \A k \in Kinds, i \in Ids :
                    Get(k, fs', DefaultDuration, filename(k, i), "none",
                        now).ret
                    = Get(k, fs, DefaultDuration, filename(k, i), "none",
                          now).ret)
       /\ last'.op \in {"get", "put", "purge"}
          => (/\ Exists(fs', VersionPath) = Exists(fs, VersionPath)
              /\ \A n \in (DOMAIN fs.files) \ {EntryOf(last')} :
                    Exists(fs', n) /\ fs'.files[n] = fs.files[n])]_vars

(* A constructor has returned over a folder that still holds an entry: the *)
(* marker it read held the current version.                                *)
C16_Witness ==
    /\ last.op = "init" /\ ~last.raised /\ last.fault = "none"
    /\ last.removed = {}
    /\ EntryNames \cap DOMAIN fs.files # {}
    /\ Exists(fs, LogFile)

(* C17: a FileCache.get, whatever system call fails in it, creates no      *)
(* file and leaves every file of the folder as it is: the entries of other *)
(* ids and of other classes, the marker, and the entry of its own id,      *)
(* unless that entry has fallen due, which it may delete.                  *)
C17_GetFrame ==
    [][(last'.op = "get" /\ cache.kind = "FileCache")
       => (/\ fs'.dirs = fs.dirs
           /\ DOMAIN fs'.files \subseteq DOMAIN fs.files
           /\ \A n \in DOMAIN fs.files :
                 \/ Exists(fs', n) /\ fs'.files[n] = fs.files[n]
                 \/ /\ n = EntryOf(last')
                    /\ ~Exists(fs', n)
                    /\ cache.duration[2] >= 1
                    /\ Due(fs.files[n].ctime) < now)]_vars

(* A get has deleted the entry of its id, which had fallen due, beside the *)
(* entry of the other id, which had fallen due as well, and the marker.    *)
C17_Witness ==
    /\ last.op = "get" /\ cache.kind = "FileCache"
    /\ last.removed = {EntryOf(last)}
    /\ \E i \in Ids \ {last.id} :
          /\ Exists(fs, filename("FileCache", i))
          /\ cache.duration[2] >= 1
          /\ Due(fs.files[filename("FileCache", i)].ctime) < now
    /\ Exists(fs, VersionPath)

(* C18: a DocumentCache.put of a value that is no Element, whatever system *)
(* call would fail, returns the value without raising and leaves the       *)
(* folder as it is, so a get of the id returns what it returned before.    *)
C18_NonElementIgnored ==
    [][(/\ last'.op = "put" /\ cache.kind = "DocumentCache"
        /\ last'.val \notin Elements)
       => (/\ last'.ret = last'.val /\ ~last'.raised
           /\ fs' = fs
           /\ Get(cache.kind, fs', cache.duration, EntryOf(last'), "none",
                  now).ret
              = Get(cache.kind, fs, cache.duration, EntryOf(last'), "none",
                    now).ret)]_vars

(* A DocumentCache was handed bytes under an id that holds a document; the *)
(* document is still there.                                                *)
C18_Witness ==
    /\ last.op = "put" /\ cache.kind = "DocumentCache"
    /\ last.val \in RawBytes
    /\ last.ret = last.val
    /\ Exists(fs, EntryOf(last))
    /\ fs.files[EntryOf(last)].data = XmlStr("e1")

(* What put and purge of a file cache leave alone: every file but the      *)
(* entry of the id in the class of the cache, and the directories; and     *)
(* they create no other file.                                              *)
OthersKept ==
    /\ fs'.dirs = fs.dirs
    /\ DOMAIN fs'.files \subseteq (DOMAIN fs.files) \cup {EntryOf(last')}
    /\ \A n \in (DOMAIN fs.files) \ {EntryOf(last')} :
          Exists(fs', n) /\ fs'.files[n] = fs.files[n]

(* C19 as stated: put and purge of a file cache change no file but the     *)
(* entry of their id in their class; purge never raises and leaves that    *)
(* entry absent.                                                           *)
C19_PurgeLeavesAbsent ==
    [][(last'.op \in {"put", "purge"} /\ cache.kind \in Kinds)
       => (/\ OthersKept
           /\ last'.op = "purge"
              => (~last'.raised /\ ~Exists(fs', EntryOf(last'))))]_vars

(* C19 amended: put and purge of a file cache change no file but the entry *)
(* of their id in their class; purge never raises, and leaves that entry   *)
(* absent unless os.remove failed on it, and then as it was.               *)
C19_Isolation ==
    [][(last'.op \in {"put", "purge"} /\ cache.kind \in Kinds)
       => (/\ OthersKept
           /\ last'.op = "purge"
              => (/\ ~last'.raised
                  /\ \/ ~Exists(fs', EntryOf(last'))
                     \/ last'.fault = "remove" /\ fs' = fs))]_vars

(* A purge has removed the entry of its id beside the entry of the other   *)
(* id, an entry of the same id in another class, and the marker.           *)
C19_Witness ==
    /\ last.op = "purge" /\ cache.kind \in Kinds
    /\ last.removed = {EntryOf(last)}
    /\ \E i \in Ids \ {last.id} : Exists(fs, filename(cache.kind, i))
    /\ \E k \in Kinds \ {cache.kind} : Exists(fs, filename(k, last.id))
    /\ Exists(fs, VersionPath)

(* C20: when a put(id, v) of a value the codec accepts and a get(id) of    *)
(* the same codec have run interleaved and both have returned, the entry   *)
(* of id is absent or holds all the bytes of v, and the get has not        *)
(* raised.                                                                 *)
C20_RaceLeavesNoPartial ==
    (/\ run.wpc = "done" /\ run.rpc = "done"
     /\ Accepts(cache.kind, run.val))
    => (/\ ~run.rraised
        /\ \/ ~Exists(fs, filename(cache.kind, run.id))
           \/ fs.files[filename(cache.kind, run.id)].data
              = Serialize(cache.kind, run.val))

(* Both have returned and the entry is absent: the get read the file while *)
(* the put was writing it, and removed it.                                 *)
C20_Witness ==
    /\ run.wpc = "done" /\ run.rpc = "done"
    /\ Accepts(cache.kind, run.val)
    /\ run.rret = None
    /\ ~Exists(fs, filename(cache.kind, run.id))

====
